---- MODULE Spec2Model ----
(***************************************************************************)
(* A model of the token-aware text chunker (src/src/chunker.py): the       *)
(* process-wide tokenizer cache, TextChunker construction, and the three   *)
(* chunking strategies chunk_by_tokens, chunk_group_strings and            *)
(* chunk_by_sentences; and of DocumentLoader._load_txt with its metadata   *)
(* merge (src/src/loader.py).                                              *)
(*                                                                         *)
(* Text is a sequence of characters.  The characters are                   *)
(*   "a"  a letter (one byte, one token)                                   *)
(*   " "  a space                                                          *)
(*   "."  sentence-ending punctuation (stands for . ! ?)                   *)
(*   "E"  a multi-byte character that the byte-pair encoding splits over   *)
(*        two tokens (an emoji, a CJK character)                           *)
(*   "N"  a newline (the separator chunk_group_strings joins with)         *)
(*   "R"  U+FFFD, the replacement character a decode of cut bytes yields   *)
(***************************************************************************)
EXTENDS Integers, Sequences, FiniteSets, TLC

\* ------------------------------------------------------------------ bounds
MaxSize == 3        \* chunk_size and chunk_overlap range up to MaxSize
MaxNeg == 1         \* ... and down to -MaxNeg
MaxTextLen == 5     \* longest text handed to chunk_by_tokens
MaxProseLen == 7    \* longest text handed to chunk_by_sentences
MaxRecLen == 2      \* longest record handed to chunk_group_strings
MaxRecs == 2        \* most records in one chunk_group_strings call
NumThreads == 2     \* threads that call get_encoding_cached concurrently
MaxCalls == 3       \* calls of get_encoding_cached the threads make in all
MaxFileLen == 3     \* longest .txt file content handed to _load_txt
MaxDirFiles == 2    \* most files in a directory handed to load_directory
MaxCfgLoads == 3    \* invocations of graphrag's load_config in one run
MaxLoopLen == 2     \* longest text of a chunk_by_tokens call run step by step

Sizes == (0 - MaxNeg)..MaxSize
Overlaps == (0 - MaxNeg - 1)..MaxSize

Chars == {"a", " ", ".", "E"}
ProseChars == {"a", " ", "."}
RecChars == {"a", " "}

SeqsUpTo(S, n) == UNION {[1..k -> S] : k \in 0..n}

Texts == SeqsUpTo(Chars, MaxTextLen)
ProseTexts == SeqsUpTo(ProseChars, MaxProseLen)
Records == SeqsUpTo(RecChars, MaxRecLen)
RecordLists == SeqsUpTo(Records, MaxRecs)

\* the metadata maps a caller hands to chunk_group_strings
Metas == {[k \in {} |-> ""], [source |-> "data.csv"]}

Threads == 1..NumThreads

Names == {"cl100k_base", "nope"}
KnownNames == {"cl100k_base"}

\* a window that always runs to the end of the token list
MinRight(a, b) == b

Min(a, b) == IF a < b THEN a ELSE b

\* ------------------------------------------------------- python primitives
Whitespace == {" ", "N"}
Punct == {"."}

\* `not s`: only the empty string counts as blank
BlankOnlyEmpty(text) == text = <<>>

\* `not s.strip()`: the string is empty or all whitespace
Blank(text) == \A i \in 1..Len(text) : text[i] \in Whitespace

RECURSIVE LStrip(_, _)
LStrip(text, S) ==
    IF text # <<>> /\ Head(text) \in S THEN LStrip(Tail(text), S) ELSE text

RECURSIVE RStrip(_, _)
RStrip(text, S) ==
    IF text # <<>> /\ text[Len(text)] \in S
    THEN RStrip(SubSeq(text, 1, Len(text) - 1), S)
    ELSE text

\* s.strip(chars): drop leading and trailing characters that are in S
StripChars(text, S) == RStrip(LStrip(text, S), S)

\* s.strip()
Strip(text) == StripChars(text, Whitespace)

\* a slice bound as python clamps it: negative counts from the end
PyIndex(i, n) ==
    IF i < 0 THEN (IF i + n < 0 THEN 0 ELSE i + n)
    ELSE (IF i > n THEN n ELSE i)

\* seq[a:b] with 0-based bounds
PySlice(s, a, b) ==
    LET lo == PyIndex(a, Len(s))
        hi == PyIndex(b, Len(s))
    IN  IF lo < hi THEN SubSeq(s, lo + 1, hi) ELSE <<>>

\* --------------------------------------------------------------- tokenizer
\* encoding.encode: a space merges with the letter after it (" a" is one
\* token), the multi-byte character is two tokens, anything else is one.

\* the tokens that start at position i: a space takes a following letter with
\* it, so a letter right after a space starts no token of its own
TokensAt(text, i) ==
    IF text[i] = "a" /\ i > 1 /\ text[i - 1] = " " THEN <<>>
    ELSE IF text[i] = " " /\ i < Len(text) /\ text[i + 1] = "a" THEN <<"_a">>
    ELSE IF text[i] = " " THEN <<"_">>
    ELSE IF text[i] = "E" THEN <<"e1", "e2">>
    ELSE <<text[i]>>

\* the tokens that start at the positions lo..hi, in order
RECURSIVE EncodeRange(_, _, _)
EncodeRange(text, lo, hi) ==
    IF lo > hi THEN <<>>
    ELSE IF lo = hi THEN TokensAt(text, lo)
    ELSE LET mid == (lo + hi) \div 2
         IN  EncodeRange(text, lo, mid) \o EncodeRange(text, mid + 1, hi)

Encode(text) == EncodeRange(text, 1, Len(text))

\* encoding.decode: the bytes of the tokens are joined and decoded with
\* errors="replace"; half of a multi-byte character decodes to U+FFFD.
RECURSIVE DecodeFrom(_, _)
DecodeFrom(toks, i) ==
    IF i > Len(toks) THEN <<>>
    ELSE IF toks[i] = "e1" /\ i < Len(toks) /\ toks[i + 1] = "e2"
         THEN <<"E">> \o DecodeFrom(toks, i + 2)
    ELSE IF toks[i] \in {"e1", "e2"} THEN <<"R">> \o DecodeFrom(toks, i + 1)
    ELSE IF toks[i] = "_a" THEN <<" ", "a">> \o DecodeFrom(toks, i + 1)
    ELSE IF toks[i] = "_" THEN <<" ">> \o DecodeFrom(toks, i + 1)
    ELSE <<toks[i]>> \o DecodeFrom(toks, i + 1)

Decode(toks) == DecodeFrom(toks, 1)

\* ------------------------------------------------------------------- state
NoInst == 0
NoChunker == [chunk_size |-> 0, chunk_overlap |-> 0, encoding |-> NoInst]
NoConfig == 0
NoLoop == [pc |-> "idle", size |-> 0, overlap |-> 0, text |-> <<>>,
           tokens |-> <<>>, start |-> 0, chunks |-> <<>>, chunk_id |-> 0]
NoResult == [status |-> "none"]

VARIABLES
    cache,      \* _ENCODING_CACHE: name -> tokenizer instance (NoInst: no key)
    loads,      \* per name, how many tokenizers tiktoken.get_encoding returned
    nextInst,   \* identity of the next tokenizer instance to be created
    chunker,    \* the TextChunker last constructed, or NoChunker
    raised,     \* the exception the last call raised, "none" if it returned
    op,         \* the call whose result the caller holds, "none" between calls
    input,      \* its arguments
    chunks,     \* the list a chunking method returned
    attempts,   \* calls of tiktoken.get_encoding the call above has made
    printed,    \* what the call above has printed
    settings,   \* settings.yaml of the service's root_dir: missing, valid, invalid
    config,     \* GraphRAGService._config: NoConfig, or the config object loaded
    cfgLoads,   \* how often graphrag's load_config has been invoked
    result,     \* the dictionary a service method returned
    everMissing,\* settings.yaml was missing at some call of the service
    loop,       \* a chunk_by_tokens call run one loop iteration at a time
    tpc,        \* per thread: the line of get_encoding_cached it is at
    tname,      \* per thread: the encoding_name it was called with
    tinst,      \* per thread: the tokenizer it loaded and has not stored yet
    tres,       \* per thread: what its last call returned
    calls       \* calls of get_encoding_cached the threads have begun

seqvars == <<chunker, raised, op, input, chunks, attempts, printed>>
thrvars == <<tpc, tname, tinst, tres, calls>>
svcvars == <<settings, config, cfgLoads, result, everMissing>>
vars == <<cache, loads, nextInst, chunker, raised, op, input, chunks, attempts,
          printed, settings, config, cfgLoads, result, everMissing, loop,
          tpc, tname, tinst, tres, calls>>

\* ------------------------------------------------------- get_encoding_cached
\* tiktoken.get_encoding(name): a new Encoding, or ValueError for a name
\* tiktoken does not know
LoadRaises(name) == name \notin KnownNames

\* a get_encoding_cached that asks tiktoken a second time when the load fails
GetEncodingCachedRetry(name) ==
    IF cache[name] = NoInst
    THEN IF LoadRaises(name)
         THEN [cache |-> cache, loads |-> loads, nextInst |-> nextInst,
               raised |-> "ValueError:encoding", result |-> NoInst,
               attempts |-> 2]
         ELSE [cache |-> [cache EXCEPT ![name] = nextInst],
               loads |-> [loads EXCEPT ![name] = @ + 1],
               nextInst |-> nextInst + 1,
               raised |-> "none", result |-> nextInst, attempts |-> 1]
    ELSE [cache |-> cache, loads |-> loads, nextInst |-> nextInst,
          raised |-> "none", result |-> cache[name], attempts |-> 0]

\* a get_encoding_cached that returns the loaded tokenizer without storing it
GetEncodingCachedNoStore(name) ==
    IF cache[name] = NoInst
    THEN IF LoadRaises(name)
         THEN [cache |-> cache, loads |-> loads, nextInst |-> nextInst,
               raised |-> "ValueError:encoding", result |-> NoInst,
               attempts |-> 1]
         ELSE [cache |-> cache,
               loads |-> [loads EXCEPT ![name] = @ + 1],
               nextInst |-> nextInst + 1,
               raised |-> "none", result |-> nextInst, attempts |-> 1]
    ELSE [cache |-> cache, loads |-> loads, nextInst |-> nextInst,
          raised |-> "none", result |-> cache[name], attempts |-> 0]

\* get_encoding_cached run without interleaving: the cache, the load count
\* and the instance counter after the call, what the call returns, and how
\* often it called tiktoken.get_encoding
GetEncodingCached(name) ==
    IF cache[name] = NoInst
    THEN IF LoadRaises(name)
         THEN [cache |-> cache, loads |-> loads, nextInst |-> nextInst,
               raised |-> "ValueError:encoding", result |-> NoInst,
               attempts |-> 1]
         ELSE [cache |-> [cache EXCEPT ![name] = nextInst],
               loads |-> [loads EXCEPT ![name] = @ + 1],
               nextInst |-> nextInst + 1,
               raised |-> "none", result |-> nextInst, attempts |-> 1]
    ELSE [cache |-> cache, loads |-> loads, nextInst |-> nextInst,
          raised |-> "none", result |-> cache[name], attempts |-> 0]

\* ------------------------------------------------------ TextChunker.__init__
\* a validation that lets chunk_overlap = chunk_size through
ConfigRejectedStrict(chunk_size, chunk_overlap) == chunk_overlap > chunk_size

\* the validation at the top of __init__
ConfigRejected(chunk_size, chunk_overlap) == chunk_overlap >= chunk_size

Construct(chunk_size, chunk_overlap, name) ==
    /\ op' = "__init__"
    /\ input' = [chunk_size |-> chunk_size, chunk_overlap |-> chunk_overlap,
                 encoding_name |-> name]
    /\ chunks' = <<>>
    /\ UNCHANGED thrvars
    /\ UNCHANGED loop
    /\ UNCHANGED svcvars
    /\ IF ConfigRejected(chunk_size, chunk_overlap)
       THEN /\ raised' = "ValueError:overlap"
            /\ chunker' = NoChunker
            /\ attempts' = 0
            /\ printed' = <<>>
            /\ UNCHANGED <<cache, loads, nextInst>>
       ELSE LET g == GetEncodingCached(name) IN
            /\ cache' = g.cache
            /\ loads' = g.loads
            /\ nextInst' = g.nextInst
            /\ raised' = g.raised
            /\ attempts' = g.attempts
            /\ printed' = <<>>
            /\ chunker' = IF g.raised = "none"
                          THEN [chunk_size |-> chunk_size,
                                chunk_overlap |-> chunk_overlap,
                                encoding |-> g.result]
                          ELSE NoChunker

\* ------------------------------------------------------------ chunk_by_tokens
\* the characters of the argument of `chunk_text.strip("")`: the literal
\* in the source is the empty string, so the call strips nothing
StripArg == {}

\* a window start that moves one token too far
AdvanceOffByOne(start, size, overlap) == start + size - overlap + 1

\* a window start that does not move
AdvanceStay(start, size, overlap) == start

\* `start += self.chunk_size - self.chunk_overlap`
Advance(start, size, overlap) == start + size - overlap

\* the while loop of chunk_by_tokens from `start` on, `chunk_id` chunks emitted
RECURSIVE TokenWindows(_, _, _, _, _)
TokenWindows(size, overlap, tokens, start, chunk_id) ==
    IF ~(start < Len(tokens)) THEN <<>>
    ELSE LET end == Min(start + size, Len(tokens))
             chunk_text == StripChars(Decode(PySlice(tokens, start, end)), StripArg)
             emit == ~Blank(chunk_text)
             c == [text |-> chunk_text,
                   chunk_id |-> chunk_id,
                   start_idx |-> start,
                   end_idx |-> end,
                   token_count |-> end - start,
                   metadata |-> [strategy |-> "token_window"],
                   units |-> <<>>]   \* units: the input units a chunk holds
         IN  (IF emit THEN <<c>> ELSE <<>>)
             \o TokenWindows(size, overlap, tokens, Advance(start, size, overlap),
                             IF emit THEN chunk_id + 1 ELSE chunk_id)

ChunkByTokensOf(size, overlap, text) ==
    TokenWindows(size, overlap, Encode(text), 0, 0)

ChunkByTokens(text) ==
    /\ op' = "chunk_by_tokens"
    /\ input' = text
    /\ chunks' = ChunkByTokensOf(chunker.chunk_size, chunker.chunk_overlap, text)
    /\ raised' = "none"
    /\ attempts' = 0
    /\ printed' = <<>>
    /\ UNCHANGED <<cache, loads, nextInst, chunker>>
    /\ UNCHANGED thrvars
    /\ UNCHANGED loop
    /\ UNCHANGED svcvars

\* -------------------------------------------------------- chunk_group_strings
RECURSIVE JoinWith(_, _)
\* sep.join(parts)
JoinWith(parts, sep) ==
    IF parts = <<>> THEN <<>>
    ELSE IF Len(parts) = 1 THEN parts[1]
    ELSE parts[1] \o sep \o JoinWith(Tail(parts), sep)

\* the loop state before the first record
GroupStart ==
    [chunks |-> <<>>, chunk_id |-> 0, current_tokens |-> <<>>,
     current_text_parts |-> <<>>, current_units |-> <<>>,
     current_start_idx |-> 0]

\* the Chunk built from the buffer of records
BufferChunk(st, metadata) ==
    [text |-> JoinWith(st.current_text_parts, <<"N">>),
     chunk_id |-> st.chunk_id,
     start_idx |-> st.current_start_idx,
     end_idx |-> st.current_start_idx + Len(st.current_tokens),
     token_count |-> Len(st.current_tokens),
     metadata |-> metadata,
     units |-> st.current_units]

\* a flush that leaves the flushed records in the buffer
FlushKeepBuffer(st, metadata) ==
    [st EXCEPT !.chunks = Append(@, BufferChunk(st, metadata)),
               !.chunk_id = @ + 1]

\* append the buffer's chunk and empty the buffer
Flush(st, metadata) ==
    [st EXCEPT !.chunks = Append(@, BufferChunk(st, metadata)),
               !.chunk_id = @ + 1,
               !.current_tokens = <<>>,
               !.current_text_parts = <<>>,
               !.current_units = <<>>]

\* sub-chunks that keep the ids chunk_by_tokens gave them
RenumberKeepIds(sub_chunks, first, metadata, i) ==
    [k \in 1..Len(sub_chunks) |->
        [sub_chunks[k] EXCEPT !.metadata = metadata, !.units = <<i>>]]

\* the sub-chunks of an oversized record, re-numbered from `first` on and
\* given a copy of the caller's metadata (units: the record they came from)
Renumber(sub_chunks, first, metadata, i) ==
    [k \in 1..Len(sub_chunks) |->
        [sub_chunks[k] EXCEPT !.chunk_id = first + k - 1,
                              !.metadata = metadata,
                              !.units = <<i>>]]

\* an iteration that appends a fitting record without the fit check
GroupStepNoFitCheck(size, overlap, st, part, i, metadata) ==
    IF Blank(part) THEN st
    ELSE [st EXCEPT !.current_tokens = @ \o Encode(part),
                    !.current_text_parts = Append(@, part),
                    !.current_units = Append(@, i)]

\* one iteration of the loop over text_parts, for the i-th record
GroupStep(size, overlap, st, part, i, metadata) ==
    IF Blank(part) THEN st
    ELSE LET part_tokens == Encode(part)
             part_len == Len(part_tokens)
         IN  IF part_len > size
             THEN LET flushed == IF st.current_tokens # <<>>
                                 THEN Flush(st, metadata) ELSE st
                      sub_chunks == ChunkByTokensOf(size, overlap, part)
                  IN  [flushed EXCEPT
                         !.chunks = @ \o Renumber(sub_chunks, flushed.chunk_id,
                                                  metadata, i),
                         !.chunk_id = @ + Len(sub_chunks)]
             ELSE LET fit == IF Len(st.current_tokens) + part_len > size
                             THEN Flush(st, metadata) ELSE st
                  IN  [fit EXCEPT
                         !.current_tokens = @ \o part_tokens,
                         !.current_text_parts = Append(@, part),
                         !.current_units = Append(@, i)]

RECURSIVE GroupLoop(_, _, _, _, _, _)
GroupLoop(size, overlap, st, text_parts, i, metadata) ==
    IF i > Len(text_parts) THEN st
    ELSE GroupLoop(size, overlap,
                   GroupStep(size, overlap, st, text_parts[i], i, metadata),
                   text_parts, i + 1, metadata)

\* a final flush that does not test whether the buffer holds anything
ChunkGroupStringsOfAlwaysFlush(size, overlap, text_parts, metadata) ==
    LET st == GroupLoop(size, overlap, GroupStart, text_parts, 1, metadata)
    IN  Append(st.chunks, BufferChunk(st, metadata))

ChunkGroupStringsOf(size, overlap, text_parts, metadata) ==
    LET st == GroupLoop(size, overlap, GroupStart, text_parts, 1, metadata)
    IN  IF st.current_tokens # <<>>
        THEN Append(st.chunks, BufferChunk(st, metadata))
        ELSE st.chunks

ChunkGroupStrings(text_parts, metadata) ==
    /\ op' = "chunk_group_strings"
    /\ input' = [text_parts |-> text_parts, metadata |-> metadata]
    /\ chunks' = ChunkGroupStringsOf(chunker.chunk_size, chunker.chunk_overlap,
                                     text_parts, metadata)
    /\ raised' = "none"
    /\ attempts' = 0
    /\ printed' = <<>>
    /\ UNCHANGED <<cache, loads, nextInst, chunker>>
    /\ UNCHANGED thrvars
    /\ UNCHANGED loop
    /\ UNCHANGED svcvars

\* --------------------------------------------------------- chunk_by_sentences
\* re.split(r'(?<=[.!?])\s+', text): cut at every run of whitespace that
\* directly follows sentence punctuation
RECURSIVE SkipSpace(_, _)
SkipSpace(text, i) ==
    IF i <= Len(text) /\ text[i] \in Whitespace THEN SkipSpace(text, i + 1) ELSE i

\* the positions where a separator starts: whitespace right after punctuation
SepStarts(text) ==
    {i \in 2..Len(text) : text[i] \in Whitespace /\ text[i - 1] \in Punct}

\* the pieces of the text from position i on
RECURSIVE SplitFrom(_, _)
SplitFrom(text, i) ==
    LET later == {j \in SepStarts(text) : j >= i}
    IN  IF later = {} THEN <<SubSeq(text, i, Len(text))>>
        ELSE LET j == CHOOSE m \in later : \A k \in later : m <= k
             IN  <<SubSeq(text, i, j - 1)>> \o SplitFrom(text, SkipSpace(text, j))

SplitSentences(text) == SplitFrom(text, 1)

RECURSIVE Concat(_)
\* "".join(parts), also the flattening of a list of token lists
Concat(parts) == IF parts = <<>> THEN <<>> ELSE Head(parts) \o Concat(Tail(parts))

SentStart ==
    [chunks |-> <<>>, chunk_id |-> 0, current_tokens |-> <<>>,
     current_text_parts |-> <<>>, current_units |-> <<>>,
     current_start_idx |-> 0]

\* a sentence chunk whose end_idx forgets the running start
SentenceChunkEndFromZero(st) ==
    [text |-> Strip(Concat(st.current_text_parts)),
     chunk_id |-> st.chunk_id,
     start_idx |-> st.current_start_idx,
     end_idx |-> Len(st.current_tokens),
     token_count |-> Len(st.current_tokens),
     metadata |-> [strategy |-> "sentence_aware"],
     units |-> st.current_units]

\* the Chunk built from the buffer of sentences
SentenceChunk(st) ==
    [text |-> Strip(Concat(st.current_text_parts)),
     chunk_id |-> st.chunk_id,
     start_idx |-> st.current_start_idx,
     end_idx |-> st.current_start_idx + Len(st.current_tokens),
     token_count |-> Len(st.current_tokens),
     metadata |-> [strategy |-> "sentence_aware"],
     units |-> st.current_units]

\* a backward walk that always keeps the last sentence as overlap
OverlapFirstKeepLast(parts, i, current_overlap_size, overlap) ==
    IF i < 1 THEN 1 ELSE i

\* the backward walk over current_text_parts: the index of the first part
\* that is kept as overlap (Len(parts) + 1 when none is)
RECURSIVE OverlapFirst(_, _, _, _)
OverlapFirst(parts, i, current_overlap_size, overlap) ==
    IF i < 1 THEN 1
    ELSE LET part_tokens == Encode(parts[i])
         IN  IF current_overlap_size + Len(part_tokens) > overlap
             THEN i + 1
             ELSE OverlapFirst(parts, i - 1,
                               current_overlap_size + Len(part_tokens), overlap)

\* one iteration of the loop over sentences, for the i-th sentence
SentStep(size, overlap, st, sentence, i) ==
    IF Blank(sentence) THEN st
    ELSE LET sent_tokens == Encode(sentence)
             sent_len == Len(sent_tokens)
             emitted == IF st.current_tokens # <<>>
                        THEN [st EXCEPT !.chunks = Append(@, SentenceChunk(st)),
                                        !.chunk_id = @ + 1]
                        ELSE st
             n == Len(st.current_text_parts)
             first == OverlapFirst(st.current_text_parts, n, 0, overlap)
             overlap_buffer_text == SubSeq(st.current_text_parts, first, n)
             overlap_buffer_tokens ==
                 [k \in 1..Len(overlap_buffer_text) |-> Encode(overlap_buffer_text[k])]
             reset == [emitted EXCEPT
                         !.current_tokens = Concat(overlap_buffer_tokens),
                         !.current_text_parts = overlap_buffer_text,
                         !.current_units = SubSeq(st.current_units, first, n),
                         !.current_start_idx =
                             @ + (IF emitted.chunks # <<>>
                                  THEN Len(emitted.chunks[Len(emitted.chunks)].text)
                                  ELSE 0)]
             base == IF Len(st.current_tokens) + sent_len > size THEN reset ELSE st
         IN  [base EXCEPT !.current_tokens = @ \o sent_tokens,
                          !.current_text_parts = Append(@, sentence \o <<" ">>),
                          !.current_units = Append(@, i)]

RECURSIVE SentLoop(_, _, _, _, _)
SentLoop(size, overlap, st, sentences, i) ==
    IF i > Len(sentences) THEN st
    ELSE SentLoop(size, overlap,
                  SentStep(size, overlap, st, sentences[i], i),
                  sentences, i + 1)

\* a run that forgets the sentences still in the buffer after the loop
ChunkBySentencesOfNoFinal(size, overlap, text) ==
    SentLoop(size, overlap, SentStart, SplitSentences(text), 1).chunks

ChunkBySentencesOf(size, overlap, text) ==
    LET st == SentLoop(size, overlap, SentStart, SplitSentences(text), 1)
    IN  IF st.current_tokens # <<>>
        THEN Append(st.chunks, SentenceChunk(st))
        ELSE st.chunks

ChunkBySentences(text) ==
    /\ op' = "chunk_by_sentences"
    /\ input' = text
    /\ chunks' = ChunkBySentencesOf(chunker.chunk_size, chunker.chunk_overlap, text)
    /\ raised' = "none"
    /\ attempts' = 0
    /\ printed' = <<>>
    /\ UNCHANGED <<cache, loads, nextInst, chunker>>
    /\ UNCHANGED thrvars
    /\ UNCHANGED loop
    /\ UNCHANGED svcvars

\* ------------------------------------------------------------- scenario A
\* TextChunker(chunk_size=50, chunk_overlap=10), the configuration of the
\* loader tests
ScenarioAConfig == <<50, 10>>

\* a sentence of n tokens: n - 1 letters and a full stop
Sentence(n) == [i \in 1..n |-> IF i = n THEN "." ELSE "a"]

\* the token counts of 5 sentences of about 24 tokens, 120 tokens in all
ScenarioALengths ==
    {ls \in [1..5 -> 23..25] : ls[1] + ls[2] + ls[3] + ls[4] + ls[5] = 120}

\* the prose inputs of scenario A: the 5 sentences, a space between them
ScenarioATexts ==
    {JoinWith([i \in 1..5 |-> Sentence(ls[i])], <<" ">>) : ls \in ScenarioALengths}

\* ---------------------------------------------------------- DocumentLoader
\* (loader.py; its import line `from typing import list, dict` is not part
\* of the methods modelled here)
\* the content of a .txt file
FileTexts == SeqsUpTo(ProseChars, MaxFileLen)

\* the file-level metadata map a caller hands to _load_txt
FileMetas ==
    {[k \in {} |-> ""],
     [source |-> "doc.txt", file_type |-> ".txt"],
     [source |-> "doc.txt", strategy |-> "file"]}

\* a merge in which the file-level value of a shared key survives
MergeFileWins(metadata, chunk_metadata) ==
    [k \in DOMAIN metadata \cup DOMAIN chunk_metadata |->
        IF k \in DOMAIN metadata THEN metadata[k] ELSE chunk_metadata[k]]

\* combined = metadata.copy(); combined.update(chunk.metadata)
Merge(metadata, chunk_metadata) ==
    [k \in DOMAIN metadata \cup DOMAIN chunk_metadata |->
        IF k \in DOMAIN chunk_metadata THEN chunk_metadata[k] ELSE metadata[k]]

\* _apply_metadata: the loop over the chunks; each chunk gets the merged
\* copy, the map passed in is only read
RECURSIVE ApplyLoop(_, _, _)
ApplyLoop(cs, k, metadata) ==
    IF k > Len(cs) THEN [chunks |-> cs, metadata |-> metadata]
    ELSE LET combined == Merge(metadata, cs[k].metadata)
         IN  ApplyLoop([cs EXCEPT ![k].metadata = combined], k + 1, metadata)

\* the chunks _apply_metadata returns and the file-level map after the call
ApplyMetadata(cs, metadata) == ApplyLoop(cs, 1, metadata)

\* _load_txt: read the file, chunk it by sentences, merge the metadata
LoadTxt(text, metadata) ==
    LET cs == ChunkBySentencesOf(chunker.chunk_size, chunker.chunk_overlap, text)
        r == ApplyMetadata(cs, metadata)
    IN  /\ op' = "_load_txt"
        /\ input' = [text |-> text, metadata |-> metadata,
                     metadata_after |-> r.metadata]
        /\ chunks' = r.chunks
        /\ raised' = "none"
        /\ attempts' = 0
        /\ printed' = <<>>
        /\ UNCHANGED <<cache, loads, nextInst, chunker>>
        /\ UNCHANGED thrvars
        /\ UNCHANGED loop
        /\ UNCHANGED svcvars

\* the files rglob finds: a suffix, whether open() succeeds, and the content.
\* ".txt" is a supported format, ".bin" is not.
DirFile ==
    [suffix : {".txt", ".bin"}, readable : BOOLEAN,
     text : {<<"a", ".">>, <<"a", ".", " ", "a">>}]

Directories == UNION {[1..k -> DirFile] : k \in 0..MaxDirFiles}

supported_formats == {".txt", ".csv", ".json"}

\* the name of the i-th file found
FileName(i) == <<"file", i>>

\* load_file on the i-th file: the base metadata (source and file_type; the
\* path and the date are left out), then the handler of the suffix.  open()
\* raises for a file that cannot be read.
LoadFile(file, i) ==
    LET metadata == [source |-> FileName(i), file_type |-> file.suffix]
    IN  IF file.suffix = ".txt"
        THEN IF file.readable
             THEN [raised |-> "none",
                   chunks |-> ApplyMetadata(
                                 ChunkBySentencesOf(chunker.chunk_size,
                                                    chunker.chunk_overlap,
                                                    file.text),
                                 metadata).chunks]
             ELSE [raised |-> "OSError", chunks |-> <<>>]
        ELSE [raised |-> "none", chunks |-> <<>>]

\* a load_directory whose loop has no try/except: the first failure ends it
RECURSIVE DirLoopNoCatch(_, _, _)
DirLoopNoCatch(files, i, st) ==
    IF i > Len(files) THEN st
    ELSE IF files[i].suffix \notin supported_formats
         THEN DirLoopNoCatch(files, i + 1, st)
    ELSE LET r == LoadFile(files[i], i)
             loading == Append(st.printed, <<"Loading", FileName(i)>>)
         IN  IF r.raised = "none"
             THEN DirLoopNoCatch(files, i + 1,
                                 [st EXCEPT !.all_chunks = @ \o r.chunks,
                                            !.printed = loading])
             ELSE [st EXCEPT !.printed = loading, !.raised = r.raised]

\* the loop of load_directory over the files found, from the i-th on
RECURSIVE DirLoop(_, _, _)
DirLoop(files, i, st) ==
    IF i > Len(files) THEN st
    ELSE IF files[i].suffix \notin supported_formats
         THEN DirLoop(files, i + 1, st)
    ELSE LET r == LoadFile(files[i], i)
             loading == Append(st.printed, <<"Loading", FileName(i)>>)
         IN  IF r.raised = "none"
             THEN DirLoop(files, i + 1,
                          [st EXCEPT !.all_chunks = @ \o r.chunks,
                                     !.printed = loading])
             ELSE DirLoop(files, i + 1,
                          [st EXCEPT !.printed =
                              Append(loading, <<"Failed to load", FileName(i)>>)])

\* load_directory: a directory that does not exist gives no chunk
LoadDirectory(exists, files) ==
    LET st == IF exists
              THEN DirLoop(files, 1, [all_chunks |-> <<>>, printed |-> <<>>,
                                      raised |-> "none"])
              ELSE [all_chunks |-> <<>>,
                    printed |-> << <<"Directory not found">> >>,
                    raised |-> "none"]
    IN  /\ op' = "load_directory"
        /\ input' = [exists |-> exists, files |-> files]
        /\ chunks' = st.all_chunks
        /\ raised' = st.raised
        /\ printed' = st.printed
        /\ attempts' = 0
        /\ UNCHANGED <<cache, loads, nextInst, chunker>>
        /\ UNCHANGED thrvars
        /\ UNCHANGED loop
        /\ UNCHANGED svcvars

\* the caller takes the returned list; the chunker is free for the next call
Return ==
    /\ op # "none"
    /\ op' = "none"
    /\ input' = <<>>
    /\ chunks' = <<>>
    /\ attempts' = 0
    /\ printed' = <<>>
    /\ UNCHANGED <<cache, loads, nextInst, chunker, raised>>
    /\ UNCHANGED thrvars
    /\ UNCHANGED loop
    /\ UNCHANGED svcvars

\* ------------------------------------------------------------ specification
Init ==
    /\ cache = [n \in Names |-> NoInst]
    /\ loads = [n \in Names |-> 0]
    /\ nextInst = 1
    /\ chunker = NoChunker
    /\ raised = "none"
    /\ op = "none"
    /\ input = <<>>
    /\ chunks = <<>>
    /\ attempts = 0
    /\ printed = <<>>
    /\ settings = "valid"
    /\ config = NoConfig
    /\ cfgLoads = 0
    /\ result = NoResult
    /\ everMissing = FALSE
    /\ loop = NoLoop
    /\ tpc = [t \in Threads |-> "idle"]
    /\ tname = [t \in Threads |-> "cl100k_base"]
    /\ tinst = [t \in Threads |-> NoInst]
    /\ tres = [t \in Threads |-> NoInst]
    /\ calls = 0

\* the caller is sequential: it makes a call when no result is outstanding,
\* and calls a chunking method only on a chunker it has constructed
Idle == op = "none"
HasChunker == chunker # NoChunker

CallConstruct ==
    Idle /\ \E c \in (Sizes \X Overlaps) \cup {ScenarioAConfig}, n \in Names :
                Construct(c[1], c[2], n)
CallChunkByTokens ==
    Idle /\ HasChunker /\ \E t \in Texts : ChunkByTokens(t)
CallChunkGroupStrings ==
    Idle /\ HasChunker
         /\ \E p \in RecordLists, m \in Metas : ChunkGroupStrings(p, m)
CallChunkBySentences ==
    Idle /\ HasChunker
         /\ \E t \in ProseTexts \cup ScenarioATexts : ChunkBySentences(t)

CallLoadTxt ==
    Idle /\ HasChunker /\ \E t \in FileTexts, m \in FileMetas : LoadTxt(t, m)

CallLoadDirectory ==
    Idle /\ HasChunker
         /\ \E e \in BOOLEAN, fs \in Directories :
               (e \/ fs = <<>>) /\ LoadDirectory(e, fs)

Next ==
    \/ CallConstruct
    \/ CallChunkByTokens
    \/ CallChunkGroupStrings
    \/ CallChunkBySentences
    \/ CallLoadTxt
    \/ CallLoadDirectory
    \/ Return

Spec == Init /\ [][Next]_vars

\* ------------------------------------------------- GraphRAGService
\* (src/src/graphrag_service.py)  An exception is named by its class:
\* "FileNotFoundError", or "Exception" for any other subclass of Exception.
SettingsStates == {"missing", "valid", "invalid"}
IndexMethods == {"standard", "fast"}
QueryMethods == {"local", "global", "drift", "basic", "other"}
Outcomes == {"ok", "Exception", "FileNotFoundError"}
ReadOutcomes == {"ok", "Exception"}
Stats == {[entities |-> 0, edges |-> 0, communities |-> 0],
          [entities |-> 2, edges |-> 1, communities |-> 1]}
FileLists == {<<>>, <<"a.txt">>}

\* a _load_config that asks load_config again although a config is cached
LoadConfigNoCache(self_config, settings_file, loaded) ==
    IF settings_file = "missing"
    THEN [config |-> self_config, cfgLoads |-> loaded,
          raised |-> "FileNotFoundError", result |-> NoConfig]
    ELSE IF settings_file = "invalid"
    THEN [config |-> self_config, cfgLoads |-> loaded + 1,
          raised |-> "Exception", result |-> NoConfig]
    ELSE [config |-> loaded + 1, cfgLoads |-> loaded + 1,
          raised |-> "none", result |-> loaded + 1]

\* _load_config: the cached config if there is one; otherwise
\* FileNotFoundError when settings.yaml is missing, and else whatever
\* load_config gives: it raises for settings it cannot use, or returns a new
\* config object, which is cached
LoadConfig(self_config, settings_file, loaded) ==
    IF self_config # NoConfig
    THEN [config |-> self_config, cfgLoads |-> loaded,
          raised |-> "none", result |-> self_config]
    ELSE IF settings_file = "missing"
    THEN [config |-> NoConfig, cfgLoads |-> loaded,
          raised |-> "FileNotFoundError", result |-> NoConfig]
    ELSE IF settings_file = "invalid"
    THEN [config |-> NoConfig, cfgLoads |-> loaded + 1,
          raised |-> "Exception", result |-> NoConfig]
    ELSE [config |-> loaded + 1, cfgLoads |-> loaded + 1,
          raised |-> "none", result |-> loaded + 1]

\* a direct call of _load_config
CallLoadConfig ==
    LET lc == LoadConfig(config, settings, cfgLoads)
    IN  /\ cfgLoads < MaxCfgLoads
        /\ op' = "_load_config"
        /\ input' = [settings |-> settings, config |-> config,
                     cfgLoads |-> cfgLoads]
        /\ config' = lc.config
        /\ cfgLoads' = lc.cfgLoads
        /\ raised' = lc.raised
        /\ result' = [status |-> "returned", config |-> lc.result]
        /\ everMissing' = (everMissing \/ settings = "missing")
        /\ UNCHANGED <<settings, cache, loads, nextInst, chunker, chunks,
                       attempts, printed>>
        /\ UNCHANGED thrvars
        /\ UNCHANGED loop

\* _get_indexing_method
GetIndexingMethod(method, is_update) ==
    IF is_update
    THEN (IF method = "standard" THEN "StandardUpdate" ELSE "FastUpdate")
    ELSE (IF method = "standard" THEN "Standard" ELSE "Fast")

\* the first exception raised inside the try block of index_documents and
\* update_documents, "none" if every step returns: _load_config, then
\* build_index, then the reading of the output
FirstRaised(lc, build, output) ==
    IF lc.raised # "none" THEN lc.raised
    ELSE IF build # "ok" THEN build
    ELSE IF output # "ok" THEN output
    ELSE "none"

\* the dictionary of a failed run
FailedResult(is_update, exc) ==
    LET error == IF exc = "FileNotFoundError"
                 THEN [prefix |-> "", exc |-> exc]
                 ELSE [prefix |-> IF is_update THEN "Update failed: "
                                  ELSE "Indexing failed: ",
                       exc |-> exc]
    IN  [status |-> "failed", files |-> <<>>, entities_extracted |-> 0,
         nodes |-> 0, edges |-> 0, communities |-> 0, error |-> error]

\* a run without the except clauses: what is raised inside reaches the caller
IndexResultNoExcept(is_update, exc, stats, files) ==
    IF exc = "none"
    THEN [raised |-> "none",
          result |-> [status |-> "completed", files |-> files,
                      entities_extracted |-> stats.entities,
                      nodes |-> stats.entities, edges |-> stats.edges,
                      communities |-> stats.communities]]
    ELSE [raised |-> exc, result |-> NoResult]

\* what index_documents (is_update false) and update_documents (true)
\* return, given the first exception raised inside the try block; `files`
\* is the value of the key indexed_files or updated_files
IndexResult(is_update, exc, stats, files) ==
    IF exc = "none"
    THEN [raised |-> "none",
          result |-> [status |-> "completed", files |-> files,
                      entities_extracted |-> stats.entities,
                      nodes |-> stats.entities, edges |-> stats.edges,
                      communities |-> stats.communities]]
    ELSE [raised |-> "none", result |-> FailedResult(is_update, exc)]

\* index_documents and update_documents
IndexRun(is_update, method, build, output, stats, files) ==
    LET lc == LoadConfig(config, settings, cfgLoads)
        r == IndexResult(is_update, FirstRaised(lc, build, output), stats, files)
    IN  /\ cfgLoads < MaxCfgLoads
        /\ op' = IF is_update THEN "update_documents" ELSE "index_documents"
        /\ input' = [settings |-> settings, config |-> config,
                     cfgLoads |-> cfgLoads, method |-> method,
                     indexing_method |-> GetIndexingMethod(method, is_update),
                     build |-> build, output |-> output,
                     stats |-> stats, files |-> files]
        /\ config' = lc.config
        /\ cfgLoads' = lc.cfgLoads
        /\ raised' = r.raised
        /\ result' = r.result
        /\ everMissing' = (everMissing \/ settings = "missing")
        /\ UNCHANGED <<settings, cache, loads, nextInst, chunker, chunks,
                       attempts, printed>>
        /\ UNCHANGED thrvars
        /\ UNCHANGED loop

CallIndexDocuments ==
    \E m \in IndexMethods, b \in Outcomes, o \in ReadOutcomes,
       st \in Stats, fs \in FileLists :
        IndexRun(FALSE, m, b, o, st, fs)

CallUpdateDocuments ==
    \E m \in IndexMethods, b \in Outcomes, o \in ReadOutcomes,
       st \in Stats, fs \in FileLists :
        IndexRun(TRUE, m, b, o, st, fs)

\* a query_graph whose handlers report the method of the default search
QueryResultDefaultMethod(method, lc_raised, search) ==
    IF lc_raised = "FileNotFoundError"
    THEN [answer |-> "Configuration error", citations |-> <<>>, method |-> "local"]
    ELSE IF lc_raised # "none"
    THEN [answer |-> "Query failed", citations |-> <<>>, method |-> "local"]
    ELSE IF method \notin {"local", "global"}
    THEN [answer |-> "Unknown search method", citations |-> <<>>,
          method |-> "local"]
    ELSE IF search = "FileNotFoundError"
    THEN [answer |-> "Configuration error", citations |-> <<>>, method |-> "local"]
    ELSE IF search # "ok"
    THEN [answer |-> "Query failed", citations |-> <<>>, method |-> "local"]
    ELSE [answer |-> "response", citations |-> <<>>, method |-> method,
          context_data |-> "context"]

\* what query_graph returns: `search` is the outcome of _query_local or
\* _query_global (the reading of the output and the search itself)
QueryResult(method, lc_raised, search) ==
    IF lc_raised = "FileNotFoundError"
    THEN [answer |-> "Configuration error", citations |-> <<>>, method |-> method]
    ELSE IF lc_raised # "none"
    THEN [answer |-> "Query failed", citations |-> <<>>, method |-> method]
    ELSE IF method \notin {"local", "global"}
    THEN [answer |-> "Unknown search method", citations |-> <<>>,
          method |-> method]
    ELSE IF search = "FileNotFoundError"
    THEN [answer |-> "Configuration error", citations |-> <<>>, method |-> method]
    ELSE IF search # "ok"
    THEN [answer |-> "Query failed", citations |-> <<>>, method |-> method]
    ELSE [answer |-> "response", citations |-> <<>>,
          method |-> IF method = "local" THEN "local" ELSE "global",
          context_data |-> "context"]

QueryGraph(method, search) ==
    LET lc == LoadConfig(config, settings, cfgLoads)
    IN  /\ cfgLoads < MaxCfgLoads
        /\ op' = "query_graph"
        /\ input' = [settings |-> settings, config |-> config,
                     cfgLoads |-> cfgLoads, method |-> method,
                     search |-> search]
        /\ config' = lc.config
        /\ cfgLoads' = lc.cfgLoads
        /\ raised' = "none"
        /\ result' = QueryResult(method, lc.raised, search)
        /\ everMissing' = (everMissing \/ settings = "missing")
        /\ UNCHANGED <<settings, cache, loads, nextInst, chunker, chunks,
                       attempts, printed>>
        /\ UNCHANGED thrvars
        /\ UNCHANGED loop

CallQueryGraph ==
    \E m \in QueryMethods, s \in Outcomes : QueryGraph(m, s)

\* settings.yaml is written, damaged or removed between two calls
SetSettings ==
    \E s \in SettingsStates :
        /\ s # settings
        /\ settings' = s
        /\ UNCHANGED <<config, cfgLoads, result, everMissing>>
        /\ UNCHANGED <<cache, loads, nextInst>>
        /\ UNCHANGED seqvars
        /\ UNCHANGED thrvars
        /\ UNCHANGED loop

NextService ==
    \/ CallLoadConfig
    \/ CallIndexDocuments
    \/ CallUpdateDocuments
    \/ CallQueryGraph
    \/ SetSettings

SpecService == Init /\ [][NextService]_vars

\* ------------------------------- chunk_by_tokens, one loop iteration a step
\* the configs __init__ accepts
AcceptedConfigs ==
    {c \in Sizes \X Overlaps : ~ConfigRejected(c[1], c[2])}

LoopTexts == SeqsUpTo(Chars, MaxLoopLen)

\* the call: the text is encoded, start = 0, no chunk yet
TokEnter(size, overlap, text) ==
    /\ loop.pc = "idle"
    /\ loop' = [pc |-> "loop", size |-> size, overlap |-> overlap,
                text |-> text, tokens |-> Encode(text), start |-> 0,
                chunks |-> <<>>, chunk_id |-> 0]
    /\ UNCHANGED <<cache, loads, nextInst>>
    /\ UNCHANGED <<seqvars, thrvars, svcvars>>

CallTokEnter ==
    \E c \in AcceptedConfigs, t \in LoopTexts : TokEnter(c[1], c[2], t)

\* one pass through the body of `while start < total_tokens`
TokIterate ==
    /\ loop.pc = "loop"
    /\ loop.start < Len(loop.tokens)
    /\ LET end == Min(loop.start + loop.size, Len(loop.tokens))
           chunk_text == StripChars(Decode(PySlice(loop.tokens, loop.start, end)),
                                    StripArg)
           emit == ~Blank(chunk_text)
           c == [text |-> chunk_text,
                 chunk_id |-> loop.chunk_id,
                 start_idx |-> loop.start,
                 end_idx |-> end,
                 token_count |-> end - loop.start,
                 metadata |-> [strategy |-> "token_window"],
                 units |-> <<>>]
       IN  loop' = [loop EXCEPT
                      !.chunks = IF emit THEN Append(@, c) ELSE @,
                      !.chunk_id = IF emit THEN @ + 1 ELSE @,
                      !.start = Advance(@, loop.size, loop.overlap)]
    /\ UNCHANGED <<cache, loads, nextInst>>
    /\ UNCHANGED <<seqvars, thrvars, svcvars>>

\* the loop condition fails: `return chunks`
TokReturn ==
    /\ loop.pc = "loop"
    /\ ~(loop.start < Len(loop.tokens))
    /\ loop' = [loop EXCEPT !.pc = "done"]
    /\ UNCHANGED <<cache, loads, nextInst>>
    /\ UNCHANGED <<seqvars, thrvars, svcvars>>

NextTokens ==
    \/ CallTokEnter
    \/ TokIterate
    \/ TokReturn

\* the thread that runs the loop keeps running
SpecTokens == Init /\ [][NextTokens]_vars /\ WF_vars(TokIterate \/ TokReturn)

\* ------------------------------------- get_encoding_cached, thread by thread
\* a thread enters get_encoding_cached(name)
T_Call(t, name) ==
    /\ tpc[t] \in {"idle", "done", "raised"}
    /\ calls < MaxCalls
    /\ calls' = calls + 1
    /\ tpc' = [tpc EXCEPT ![t] = "check"]
    /\ tname' = [tname EXCEPT ![t] = name]
    /\ tinst' = [tinst EXCEPT ![t] = NoInst]
    /\ tres' = [tres EXCEPT ![t] = NoInst]
    /\ UNCHANGED <<cache, loads, nextInst>>
    /\ UNCHANGED seqvars
    /\ UNCHANGED loop
    /\ UNCHANGED svcvars

\* `if encoding_name not in _ENCODING_CACHE:`
T_Check(t) ==
    /\ tpc[t] = "check"
    /\ tpc' = [tpc EXCEPT ![t] = IF cache[tname[t]] = NoInst THEN "load" ELSE "ret"]
    /\ UNCHANGED <<cache, loads, nextInst, tname, tinst, tres, calls>>
    /\ UNCHANGED seqvars
    /\ UNCHANGED loop
    /\ UNCHANGED svcvars

\* `tiktoken.get_encoding(encoding_name)`: the right-hand side of line 12
T_Load(t) ==
    /\ tpc[t] = "load"
    /\ IF LoadRaises(tname[t])
       THEN /\ tpc' = [tpc EXCEPT ![t] = "raised"]
            /\ UNCHANGED <<loads, nextInst, tinst>>
       ELSE /\ tpc' = [tpc EXCEPT ![t] = "store"]
            /\ tinst' = [tinst EXCEPT ![t] = nextInst]
            /\ loads' = [loads EXCEPT ![tname[t]] = @ + 1]
            /\ nextInst' = nextInst + 1
    /\ UNCHANGED <<cache, tname, tres, calls>>
    /\ UNCHANGED seqvars
    /\ UNCHANGED loop
    /\ UNCHANGED svcvars

\* `_ENCODING_CACHE[encoding_name] = ...`: the assignment of line 12
T_Store(t) ==
    /\ tpc[t] = "store"
    /\ cache' = [cache EXCEPT ![tname[t]] = tinst[t]]
    /\ tinst' = [tinst EXCEPT ![t] = NoInst]
    /\ tpc' = [tpc EXCEPT ![t] = "ret"]
    /\ UNCHANGED <<loads, nextInst, tname, tres, calls>>
    /\ UNCHANGED seqvars
    /\ UNCHANGED loop
    /\ UNCHANGED svcvars

\* `return _ENCODING_CACHE[encoding_name]`
T_Return(t) ==
    /\ tpc[t] = "ret"
    /\ tres' = [tres EXCEPT ![t] = cache[tname[t]]]
    /\ tpc' = [tpc EXCEPT ![t] = "done"]
    /\ UNCHANGED <<cache, loads, nextInst, tname, tinst, calls>>
    /\ UNCHANGED seqvars
    /\ UNCHANGED loop
    /\ UNCHANGED svcvars

ThreadCall == \E t \in Threads, n \in Names : T_Call(t, n)
ThreadCheck == \E t \in Threads : T_Check(t)
ThreadLoad == \E t \in Threads : T_Load(t)
ThreadStore == \E t \in Threads : T_Store(t)
ThreadReturn == \E t \in Threads : T_Return(t)

NextCache ==
    \/ ThreadCall
    \/ ThreadCheck
    \/ ThreadLoad
    \/ ThreadStore
    \/ ThreadReturn

\* the threads of one process calling get_encoding_cached in any interleaving
SpecCache == Init /\ [][NextCache]_vars

\* ================================================================== claims
ChunkOps == {"chunk_by_tokens", "chunk_group_strings", "chunk_by_sentences"}

\* 0 <= chunk_overlap < chunk_size
ValidConfig == 0 <= chunker.chunk_overlap /\ chunker.chunk_overlap < chunker.chunk_size

Step == chunker.chunk_size - chunker.chunk_overlap

\* the text chunk_by_tokens gets for the window that starts at token offset
\* w is empty or all whitespace
BlankWindow(toks, w) ==
    Blank(StripChars(Decode(PySlice(toks, w, Min(w + chunker.chunk_size, Len(toks)))),
                     StripArg))

\* the i-th record of the chunk_group_strings call is not blank and is no
\* longer than chunk_size / is longer than chunk_size
FitsRecord(i) ==
    /\ ~Blank(input.text_parts[i])
    /\ Len(Encode(input.text_parts[i])) <= chunker.chunk_size
OversizedRecord(i) ==
    /\ ~Blank(input.text_parts[i])
    /\ Len(Encode(input.text_parts[i])) > chunker.chunk_size

\* the chunks that hold the i-th input unit
ChunksOf(i) ==
    {k \in 1..Len(chunks) : \E j \in 1..Len(chunks[k].units) : chunks[k].units[j] = i}

\* ---- C1
\* C1: constructing a TextChunker with chunk_overlap >= chunk_size, for any
\* positive chunk_size, raises ValueError and produces no chunker.
C1_OverlapGeSizeRejected ==
    (op = "__init__" /\ input.chunk_size > 0
        /\ input.chunk_overlap >= input.chunk_size)
    => (raised = "ValueError:overlap" /\ chunker = NoChunker)

C1_Witness ==
    /\ op = "__init__"
    /\ input.chunk_size > 0
    /\ input.chunk_overlap >= input.chunk_size
    /\ raised = "ValueError:overlap"
    /\ chunker = NoChunker

\* ---- C2
\* C2: constructing a TextChunker with chunk_size <= 0 or with a negative
\* chunk_overlap raises a configuration error and produces no chunker.
C2_NonPositiveSizeOrNegativeOverlapRejected ==
    (op = "__init__" /\ (input.chunk_size <= 0 \/ input.chunk_overlap < 0))
    => (raised # "none" /\ chunker = NoChunker)

\* ---- C3
\* C3: in every interleaving of threads calling get_encoding_cached, the
\* tokenizer of a name is loaded at most once, and all callers that have
\* returned for one name hold the same instance.
C3_LoadedAtMostOnce ==
    /\ \A n \in Names : loads[n] <= 1
    /\ \A t1, t2 \in Threads :
          (tpc[t1] = "done" /\ tpc[t2] = "done" /\ tname[t1] = tname[t2])
          => tres[t1] = tres[t2]

\* ---- C4
\* C4: with a valid config, every chunk chunk_by_tokens returns has
\* token_count <= chunk_size.
C4_WindowWithinChunkSize ==
    (op = "chunk_by_tokens" /\ ValidConfig)
    => \A k \in 1..Len(chunks) : chunks[k].token_count <= chunker.chunk_size

C4_Witness ==
    /\ op = "chunk_by_tokens"
    /\ ValidConfig
    /\ Len(chunks) >= 2
    /\ chunks[1].token_count = chunker.chunk_size
    /\ chunks[Len(chunks)].token_count < chunker.chunk_size

\* ---- C5
\* C5 as stated: with a valid config, the first chunk of chunk_by_tokens
\* starts at 0 and consecutive chunks' start_idx differ by exactly
\* chunk_size - chunk_overlap.
C5_StartsDifferByStep ==
    (op = "chunk_by_tokens" /\ ValidConfig)
    => /\ (chunks # <<>> => chunks[1].start_idx = 0)
       /\ \A k \in 1..(Len(chunks) - 1) :
             chunks[k + 1].start_idx - chunks[k].start_idx = Step

\* C5 amended: with a valid config, the chunks of chunk_by_tokens come in
\* increasing start_idx order and start exactly at the window starts
\* 0, step, 2*step, ... (step = chunk_size - chunk_overlap) whose decoded
\* window text is not empty or whitespace-only; so two consecutive chunks
\* differ by step times one plus the number of windows dropped between them.
C5_StartsAreNonBlankWindows ==
    (op = "chunk_by_tokens" /\ ValidConfig)
    => LET toks == Encode(input)
           starts == {chunks[k].start_idx : k \in 1..Len(chunks)}
       IN  /\ \A k \in 1..(Len(chunks) - 1) :
                 chunks[k].start_idx < chunks[k + 1].start_idx
           /\ \A w \in starts : w \in 0..(Len(toks) - 1) /\ w % Step = 0
           /\ \A w \in 0..(Len(toks) - 1) :
                 (w % Step = 0) => (w \in starts <=> ~BlankWindow(toks, w))

C5_Witness ==
    /\ op = "chunk_by_tokens"
    /\ ValidConfig
    /\ \E k \in 1..(Len(chunks) - 1) :
          /\ chunks[k + 1].start_idx - chunks[k].start_idx = 2 * Step
          /\ BlankWindow(Encode(input), chunks[k].start_idx + Step)

\* ---- C6
\* C6: in chunk_group_strings every non-blank record of at most chunk_size
\* tokens is held by exactly one returned chunk, and that chunk's text is
\* the newline-join of the whole records it holds.
C6_FittingRecordInOneChunk ==
    (op = "chunk_group_strings")
    => \A i \in 1..Len(input.text_parts) :
          FitsRecord(i)
          => /\ Cardinality(ChunksOf(i)) = 1
             /\ \A k \in ChunksOf(i) :
                   chunks[k].text =
                       JoinWith([j \in 1..Len(chunks[k].units) |->
                                    input.text_parts[chunks[k].units[j]]],
                                <<"N">>)

C6_Witness ==
    /\ op = "chunk_group_strings"
    /\ Len(input.text_parts) = 2
    /\ FitsRecord(1)
    /\ FitsRecord(2)
    /\ Len(chunks) = 2
    /\ ChunksOf(1) = {1}
    /\ ChunksOf(2) = {2}

\* ---- C7
\* C7: in chunk_group_strings the [start_idx, end_idx) ranges of the
\* sub-chunks of a record longer than chunk_size cover every token offset
\* of the record.
C7_OversizedRecordCovered ==
    (op = "chunk_group_strings")
    => \A i \in 1..Len(input.text_parts) :
          OversizedRecord(i)
          => \A t \in 0..(Len(Encode(input.text_parts[i])) - 1) :
                \E k \in ChunksOf(i) :
                    chunks[k].start_idx <= t /\ t < chunks[k].end_idx

\* ---- C8
\* C8: in every strategy the chunk_id values of the returned chunks are
\* 0, 1, ..., n-1 in output order.
C8_ChunkIdsContiguous ==
    (op \in ChunkOps) => \A k \in 1..Len(chunks) : chunks[k].chunk_id = k - 1

\* a buffer was flushed and an oversized record went through the fallback
C8_Witness ==
    /\ op = "chunk_group_strings"
    /\ Len(chunks) >= 3
    /\ FitsRecord(1)
    /\ OversizedRecord(2)
    /\ chunks[3].chunk_id = 2

\* ---- C9
\* C9: every chunk of every strategy has token_count = end_idx - start_idx.
C9_TokenCountIsRange ==
    (op \in ChunkOps)
    => \A k \in 1..Len(chunks) :
          chunks[k].token_count = chunks[k].end_idx - chunks[k].start_idx

C9_Witness ==
    /\ op = "chunk_by_sentences"
    /\ Len(chunks) >= 2
    /\ chunks[2].start_idx > 0
    /\ chunks[2].token_count = chunks[2].end_idx - chunks[2].start_idx

\* ---- C10
\* C10: every chunk of every strategy has token_count > 0.
C10_TokenCountPositive ==
    (op \in ChunkOps) => \A k \in 1..Len(chunks) : chunks[k].token_count > 0

\* ---- C11
\* C11: chunk_by_sentences never returns a chunk whose text, trimmed of
\* surrounding whitespace, is empty.
C11_SentenceTextNotEmpty ==
    (op = "chunk_by_sentences")
    => \A k \in 1..Len(chunks) : Strip(chunks[k].text) # <<>>

\* the text starts with whitespace and ends in an empty sentence unit, which
\* was skipped, and chunks were still emitted
C11_Witness ==
    /\ op = "chunk_by_sentences"
    /\ Len(chunks) >= 2
    /\ input[1] \in Whitespace
    /\ SplitSentences(input)[Len(SplitSentences(input))] = <<>>

\* ---- C12
\* the call of scenario A: chunk_size 50, chunk_overlap 10, 5 sentences of
\* about 24 tokens
ScenarioA ==
    /\ op = "chunk_by_sentences"
    /\ chunker.chunk_size = 50
    /\ chunker.chunk_overlap = 10
    /\ input \in ScenarioATexts

\* C12 as stated: scenario A yields exactly 3 chunks, and each chunk after
\* the first starts with a sentence of the chunk before it.
C12_ScenarioAThreeChunksWithOverlap ==
    ScenarioA
    => /\ Len(chunks) = 3
       /\ \A k \in 1..(Len(chunks) - 1) :
             \E j \in 1..Len(chunks[k].units) :
                 chunks[k].units[j] = chunks[k + 1].units[1]

\* C12 amended: scenario A yields exactly 3 chunks, holding sentences 1-2,
\* 3-4 and 5; no sentence reappears in the next chunk, because no sentence
\* of about 24 tokens fits into the 10 tokens of overlap.
C12_ScenarioAThreeChunksNoOverlap ==
    ScenarioA
    => /\ Len(chunks) = 3
       /\ chunks[1].units = <<1, 2>>
       /\ chunks[2].units = <<3, 4>>
       /\ chunks[3].units = <<5>>

C12_Witness ==
    /\ ScenarioA
    /\ Len(chunks) = 3
    /\ chunks[1].token_count = 48
    /\ chunks[3].units = <<5>>

\* ---- C13
\* C13: no chunk returned by chunk_by_tokens has a replacement character in
\* its text, for a valid config and any input, also when a window boundary
\* cuts the multi-byte character.
C13_NoReplacementCharInTokenChunks ==
    (op = "chunk_by_tokens" /\ ValidConfig)
    => \A k \in 1..Len(chunks) :
          \A j \in 1..Len(chunks[k].text) : chunks[k].text[j] # "R"

\* ---- C14
\* C14: empty input yields no chunk in any strategy: chunk_by_sentences("")
\* and chunk_by_tokens("") return an empty list, and so does
\* chunk_group_strings for a list with no record that is not blank.
C14_EmptyInputNoChunks ==
    /\ (op \in {"chunk_by_sentences", "chunk_by_tokens"} /\ input = <<>>)
       => chunks = <<>>
    /\ (op = "chunk_group_strings"
        /\ \A i \in 1..Len(input.text_parts) : Blank(input.text_parts[i]))
       => chunks = <<>>

\* a record list of an empty and a whitespace-only record returned no chunk
C14_Witness ==
    /\ op = "chunk_group_strings"
    /\ input.text_parts = << <<>>, <<" ">> >>
    /\ chunks = <<>>

\* ---- C15
\* C15: the metadata of every chunk any strategy returns, record grouping and
\* its sliding-window fallback included, has a key `strategy` whose value is
\* sentence_aware or token_window.
C15_StrategyKeyInEveryChunk ==
    (op \in ChunkOps)
    => \A k \in 1..Len(chunks) :
          /\ "strategy" \in DOMAIN chunks[k].metadata
          /\ chunks[k].metadata["strategy"] \in {"sentence_aware", "token_window"}

\* ---- C16
\* the token count of the sentence chunk_by_sentences appended last to its
\* k-th chunk
LastSentenceLen(k) ==
    LET u == chunks[k].units
    IN  Len(Encode(SplitSentences(input)[u[Len(u)]]))

\* C16: a chunk returned by chunk_by_sentences exceeds chunk_size by at most
\* the token count of the sentence appended to it last.
C16_ExceedsByAtMostOneSentence ==
    (op = "chunk_by_sentences")
    => \A k \in 1..Len(chunks) :
          chunks[k].token_count <= chunker.chunk_size + LastSentenceLen(k)

\* ---- C17
\* C17: for a valid config, a chunk returned by chunk_by_sentences has more
\* than chunk_size tokens only if it holds a single sentence whose own token
\* count exceeds chunk_size.
C17_OverSizeOnlyForOversizedSentence ==
    (op = "chunk_by_sentences" /\ ValidConfig)
    => \A k \in 1..Len(chunks) :
          (chunks[k].token_count > chunker.chunk_size)
          => /\ Len(chunks[k].units) = 1
             /\ LastSentenceLen(k) > chunker.chunk_size

\* ---- C18
\* C18: a construction that passes the validation and names an encoding
\* tiktoken does not know raises the error to the caller after exactly one
\* load attempt, builds no chunker, and leaves the cache without an entry
\* for that name.
C18_LoadFailureSurfacedOnce ==
    (/\ op = "__init__"
     /\ ~ConfigRejected(input.chunk_size, input.chunk_overlap)
     /\ LoadRaises(input.encoding_name))
    => /\ raised = "ValueError:encoding"
       /\ attempts = 1
       /\ chunker = NoChunker
       /\ cache[input.encoding_name] = NoInst
       /\ loads[input.encoding_name] = 0

\* a failed load after another name was loaded and cached
C18_Witness ==
    /\ op = "__init__"
    /\ raised = "ValueError:encoding"
    /\ input.encoding_name = "nope"
    /\ cache["cl100k_base"] # NoInst

\* ---- C19
\* C19: over any sequence of non-concurrent constructions the tokenizer of
\* each name is loaded at most once, and every successful construction holds
\* the cached instance; one that found the name cached made no load attempt.
C19_LoadedAtMostOnceSequentially ==
    /\ \A n \in Names : loads[n] <= 1
    /\ (op = "__init__" /\ raised = "none")
       => /\ chunker.encoding = cache[input.encoding_name]
          /\ chunker.encoding # NoInst
          /\ loads[input.encoding_name] = 1
          /\ attempts <= 1

\* a later construction served from the cache: no load attempt, one load in all
C19_Witness ==
    /\ op = "__init__"
    /\ raised = "none"
    /\ attempts = 0
    /\ loads[input.encoding_name] = 1
    /\ chunker.encoding = cache[input.encoding_name]

FileChunks(i) == LoadFile(input.files[i], i).chunks

\* the supported files of the directory whose loading raises
FailingFiles ==
    {i \in 1..Len(input.files) :
        /\ input.files[i].suffix \in supported_formats
        /\ LoadFile(input.files[i], i).raised # "none"}

\* the supported files of the directory whose loading succeeds
LoadedFiles ==
    {i \in 1..Len(input.files) :
        /\ input.files[i].suffix \in supported_formats
        /\ LoadFile(input.files[i], i).raised = "none"}

IndexOps == {"index_documents", "update_documents"}

\* the dictionary of a failed run: status failed, an error, no file, zeros
FailedShape ==
    /\ result.status = "failed"
    /\ "error" \in DOMAIN result
    /\ result.files = <<>>
    /\ result.entities_extracted = 0
    /\ result.nodes = 0
    /\ result.edges = 0
    /\ result.communities = 0

SomeStepRaises ==
    \/ input.config = NoConfig /\ input.settings # "valid"
    \/ input.build # "ok"
    \/ input.output # "ok"

C23_QueryAlwaysAnswersWithMethod ==
    (op = "query_graph")
    => /\ raised = "none"
       /\ {"answer", "citations", "method"} \subseteq DOMAIN result
       /\ result.citations \in Seq({})
       /\ result.method = input.method

\* a method that is neither local nor global, asked with a usable config
C23_Witness ==
    /\ op = "query_graph"
    /\ input.method = "drift"
    /\ config # NoConfig
    /\ result.answer = "Unknown search method"
    /\ result.method = "drift"

LoopAgreesWithChunkByTokens ==
    (loop.pc = "done")
    => loop.chunks = ChunkByTokensOf(loop.size, loop.overlap, loop.text)

\* C25: for every config __init__ accepts (chunk_overlap < chunk_size) and
\* every token stream, chunk_by_tokens terminates: every iteration moves the
\* window start forward by chunk_size - chunk_overlap > 0, and the loop is
\* left once start >= total_tokens.
C25_ChunkByTokensTerminates ==
    /\ [][(loop.pc = "loop" /\ loop'.pc = "loop")
          => /\ loop.size - loop.overlap > 0
             /\ loop'.start = loop.start + (loop.size - loop.overlap)]_vars
    /\ [](loop.pc = "done" => loop.start >= Len(loop.tokens))
    /\ (loop.pc = "loop") ~> (loop.pc = "done")

\* a call that went through the loop body three times and returned
C25_Witness ==
    /\ loop.pc = "done"
    /\ Len(loop.tokens) = 3
    /\ loop.start = 3 * (loop.size - loop.overlap)
    /\ loop.start - (loop.size - loop.overlap) < Len(loop.tokens)

\* ---- C26
\* the token count sentence u of the input had when it was added to the
\* buffer
SentLen(u) == Len(Encode(SplitSentences(input)[u]))

\* the sum of those counts over a list of sentences
RECURSIVE SumSentLens(_)
SumSentLens(us) == IF us = <<>> THEN 0 ELSE SentLen(Head(us)) + SumSentLens(Tail(us))

\* the last m entries of a list
Suffix(us, m) == SubSeq(us, Len(us) - m + 1, Len(us))

\* the sentences of chunk k + 1 that were carried over from chunk k
Carried(k) ==
    LET last == chunks[k].units[Len(chunks[k].units)]
    IN  SelectSeq(chunks[k + 1].units, LAMBDA u : u <= last)

\* C26: for a valid config, the overlap carried from an emitted buffer into
\* the next chunk is the longest suffix of the buffer's sentences whose
\* token counts, as they were when the sentences were added, sum to at most
\* chunk_overlap.
C26_OverlapIsLongestFittingSuffix ==
    (op = "chunk_by_sentences" /\ ValidConfig)
    => \A k \in 1..(Len(chunks) - 1) :
          LET us == chunks[k].units
              fits == {m \in 0..Len(us) :
                          SumSentLens(Suffix(us, m)) <= chunker.chunk_overlap}
              longest == CHOOSE m \in fits : \A n \in fits : n <= m
          IN  Carried(k) = Suffix(us, longest)

\* ---- C27
\* the number of tokens the buffer holds after it was reset to the overlap
\* carried from chunk k
OverlapTokenCount(k) ==
    LET us == Carried(k)
        part_tokens == [j \in 1..Len(us) |->
                           Encode(SplitSentences(input)[us[j]] \o <<" ">>)]
    IN  Len(Concat(part_tokens))

\* C27: for a valid config, the first sentence chunk has start_idx 0 and
\* every later chunk starts at the previous chunk's end_idx minus the token
\* count of the overlap carried over from it.
C27_StartIsPreviousEndMinusOverlap ==
    (op = "chunk_by_sentences" /\ ValidConfig)
    => /\ (chunks # <<>> => chunks[1].start_idx = 0)
       /\ \A k \in 1..(Len(chunks) - 1) :
             chunks[k + 1].start_idx = chunks[k].end_idx - OverlapTokenCount(k)

\* ---- C28
\* the sum of the token counts of the records with the given indices
RECURSIVE SumRecordLens(_)
SumRecordLens(us) ==
    IF us = <<>> THEN 0
    ELSE Len(Encode(input.text_parts[Head(us)])) + SumRecordLens(Tail(us))

\* chunk k is a flushed buffer of records (not a sub-chunk of the fallback)
BufferedChunk(k) == \A j \in 1..Len(chunks[k].units) : FitsRecord(chunks[k].units[j])

\* C28: every chunk of chunk_group_strings has token_count <= chunk_size,
\* and a buffered chunk's token_count is the sum of the token counts of the
\* records it holds.
C28_GroupChunksWithinSize ==
    (op = "chunk_group_strings")
    => \A k \in 1..Len(chunks) :
          /\ chunks[k].token_count <= chunker.chunk_size
          /\ BufferedChunk(k)
             => chunks[k].token_count = SumRecordLens(chunks[k].units)

\* an oversized record goes through the fallback and a buffered chunk
\* fills chunk_size exactly
C28_Witness ==
    /\ op = "chunk_group_strings"
    /\ ValidConfig
    /\ \E k \in 1..Len(chunks) :
          /\ BufferedChunk(k)
          /\ chunks[k].token_count = chunker.chunk_size
    /\ \E k \in 1..Len(chunks) :
          /\ ~BufferedChunk(k)
          /\ chunks[k].token_count = chunker.chunk_size

\* ---- C29
\* C29: for a valid config, the token_count of every sentence chunk is the
\* sum, over the sentences that make up the chunk, of the token count of
\* the sentence encoded alone, also for sentences that came in through the
\* overlap.
C29_TokenCountIsSumOfSentenceCounts ==
    (op = "chunk_by_sentences" /\ ValidConfig)
    => \A k \in 1..Len(chunks) :
          chunks[k].token_count = SumSentLens(chunks[k].units)

\* ---- C30
\* the indices of the non-blank sentences of the input
NonBlankUnits ==
    {i \in 1..Len(SplitSentences(input)) : ~Blank(SplitSentences(input)[i])}

\* the text of the sentences us, each followed by the joining space
UnitsText(us) ==
    Concat([j \in 1..Len(us) |-> SplitSentences(input)[us[j]] \o <<" ">>])

\* C30: in chunk_by_sentences every non-blank sentence of the input is
\* whole in at least one chunk, the sentences of a chunk are consecutive
\* input sentences in input order, and the first sentence of chunk k + 1 is
\* not earlier in the input than the first sentence of chunk k.
C30_NoSentenceLostOrReordered ==
    (op = "chunk_by_sentences")
    => /\ \A i \in NonBlankUnits : ChunksOf(i) # {}
       /\ \A k \in 1..Len(chunks) :
             LET us == chunks[k].units
             IN  /\ us # <<>>
                 /\ chunks[k].text = Strip(UnitsText(us))
                 /\ \A j \in 1..Len(us) : us[j] \in NonBlankUnits
                 /\ \A j \in 1..(Len(us) - 1) :
                       /\ us[j] < us[j + 1]
                       /\ \A i \in NonBlankUnits : ~(us[j] < i /\ i < us[j + 1])
       /\ \A k \in 1..(Len(chunks) - 1) :
             chunks[k].units[1] <= chunks[k + 1].units[1]

\* three sentences, the second carried over into the chunk of the third
C30_Witness ==
    /\ op = "chunk_by_sentences"
    /\ Cardinality(NonBlankUnits) >= 3
    /\ Len(chunks) >= 2
    /\ \E i \in NonBlankUnits : Cardinality(ChunksOf(i)) = 2
    /\ chunks[Len(chunks)].units[Len(chunks[Len(chunks)].units)] = Len(SplitSentences(input))

====
